---- MODULE Spec2Model ----
(***************************************************************************)
(* A model of utils/scrape.py: the command line, GoogleImagesScraper's     *)
(* constructor, the request dispatcher (_fetch_request), the extractor     *)
(* (_fetch_image_urls) and the select/download loop of fetch().            *)
(*                                                                         *)
(* Text is a sequence of tokens.  A token is one character of the text or  *)
(* one fixed run of characters that the code treats as a unit: the scheme  *)
(* "https://", the word "gstatic", the extension "jpg".                    *)
(***************************************************************************)
EXTENDS Integers, Sequences, FiniteSets, TLC

VARIABLES
    argv,           \* the command line: [query, num]; num is <<>> when --num is not given
    args,           \* argparse's namespace after parse_args()
    pc,             \* position of the main task
    error,          \* the exception that ended the run, NONE while there is none
    query,          \* self.query
    image_dir,      \* self.image_dir (the directory's name under IMAGE_DIR)
    dirs,           \* directories that exist under IMAGE_DIR
    num_results,    \* self.num_results
    dpc,            \* position inside _fetch_request
    call,           \* the arguments of the running _fetch_request call
    result,         \* what the last _fetch_request call returned
    derror,         \* what the last _fetch_request call raised
    sessions_open,  \* ClientSessions entered and not yet exited
    inflight,       \* GETs issued whose response context is not yet exited
    get_log,        \* every GET issued so far, in order
    call_gets,      \* GETs issued by the running call
    call_sessions,  \* sessions opened by the running call
    body_reads,     \* response bodies read so far
    image_urls,     \* fetch()'s local list of candidates still to choose from
    candidates,     \* the list _fetch_image_urls returned (history)
    rem_pos,        \* for each element of image_urls, its position in candidates (history)
    sel_pos,        \* positions in candidates of the selected elements, in order (history)
    selected,       \* the URLs selected so far, in order (history)
    loop_range,     \* fetch()'s loop_range
    iter,           \* iterations of "for _ in range(loop_range)" started
    progress,       \* progress_bar.n
    image_data,     \* the record _get_image_data built for the current iteration
    file_open,      \* the target file of the current iteration is open
    files,          \* the files of image_dir: name -> content
    writes,         \* write operations completed, in order (file names)
    calls_done      \* outcomes of the dispatcher calls made by the harness

cliVars  == <<argv, args, query, image_dir, dirs, num_results>>
dispVars == <<dpc, call, result, derror, sessions_open, inflight, get_log,
              call_gets, call_sessions, body_reads>>
pipeVars == <<image_urls, candidates, rem_pos, sel_pos, selected, loop_range,
              iter, progress, image_data, file_open, files, writes>>
vars     == <<cliVars, pc, error, dispVars, pipeVars, calls_done>>

(***************************************************************************)
(* Bounds of the model.                                                    *)
(***************************************************************************)
MaxCands == 3     \* URLs in a search response of the pipeline
MaxNum   == 3     \* largest explicit --num besides the default
MaxText  == 6     \* tokens in an arbitrary response text given to the extractor
MaxQuery == 4     \* characters in a --query argument
MaxPad   == 2     \* whitespace characters added around a query
MaxCalls == 2     \* dispatcher calls made by the harness

DefaultNum == 100   \* line 145, default of --num
PoolLimit  == 5     \* line 62, TCPConnector(limit=5)

NONE == "NONE"

(***************************************************************************)
(* Tokens.                                                                 *)
(***************************************************************************)
SCHEME  == "https://"
GSTATIC == "gstatic"
LETTER  == "x"
SLASH   == "/"
DOT     == "."
EXT     == "jpg"
SPACE   == " "
TAB     == "\t"
QLETTER == "c"

\* the tokens made of characters of the class [a-zA-Z0-9/_.-]
ClassChars == {GSTATIC, LETTER, SLASH, DOT, EXT}
Alphabet   == ClassChars \cup {SCHEME, SPACE}
Whitespace == {SPACE, TAB}

SeqsUpTo(S, n) == UNION {[1..k -> S] : k \in 0..n}

RECURSIVE Flatten(_)
Flatten(ss) == IF ss = <<>> THEN <<>> ELSE Head(ss) \o Flatten(Tail(ss))

(***************************************************************************)
(* image_urls_regex.findall: scan left to right; at a position holding the *)
(* scheme, take the class characters greedily, then give characters back   *)
(* until "." and an extension follow; resume after a match.                *)
(***************************************************************************)
RECURSIVE GreedyEnd(_, _)
GreedyEnd(text, q) ==
    IF q + 1 <= Len(text) /\ text[q + 1] \in ClassChars
    THEN GreedyEnd(text, q + 1)
    ELSE q

\* variant: a lazy quantifier, the shortest match
BacktrackLazy(text, p, k) ==
    LET ks == {j \in (p + 1)..k : j + 2 <= Len(text) /\ text[j + 1] = DOT /\ text[j + 2] = EXT}
    IN  IF ks = {} THEN 0 ELSE (CHOOSE j \in ks : \A m \in ks : j <= m) + 2

RECURSIVE Backtrack(_, _, _)
Backtrack(text, p, k) ==
    IF k < p + 1 THEN 0
    ELSE IF k + 2 <= Len(text) /\ text[k + 1] = DOT /\ text[k + 2] = EXT
         THEN k + 2
         ELSE Backtrack(text, p, k - 1)

\* the end of the match that starts at p, 0 when there is none
MatchAt(text, p) ==
    IF text[p] # SCHEME THEN 0 ELSE Backtrack(text, p, GreedyEnd(text, p))

RECURSIVE FindAllFrom(_, _)
FindAllFrom(text, p) ==
    IF p > Len(text) THEN <<>>
    ELSE LET e == MatchAt(text, p)
         IN  IF e > 0
             THEN <<SubSeq(text, p, e)>> \o FindAllFrom(text, e + 1)
             ELSE FindAllFrom(text, p + 1)

image_urls_regex_findall(text) == FindAllFrom(text, 1)

Contains(s, tok) == \E k \in 1..Len(s) : s[k] = tok

_filter_image_urls(url) == IF Contains(url, GSTATIC) THEN FALSE ELSE TRUE

\* lines 82-84 of _fetch_image_urls, applied to the text the dispatcher returned
ExtractImageUrls(text) == SelectSeq(image_urls_regex_findall(text), _filter_image_urls)

(***************************************************************************)
(* os.path.basename and str.split(".")[-1].                                *)
(***************************************************************************)
LastIndexIn(s, toks) ==
    LET hits == {k \in 1..Len(s) : s[k] \in toks}
    IN  IF hits = {} THEN 0 ELSE CHOOSE k \in hits : \A m \in hits : m <= k

basename(url) == SubSeq(url, LastIndexIn(url, {SLASH, SCHEME}) + 1, Len(url))

image_format(filename) == SubSeq(filename, LastIndexIn(filename, {DOT}) + 1, Len(filename))

_get_image_data(url) ==
    [type |-> "image", query |-> query, scraper |-> "GoogleImagesScraper",
     image_url |-> url, image_filename |-> basename(url),
     image_format |-> image_format(basename(url))]

(***************************************************************************)
(* str.strip and str.replace.                                              *)
(***************************************************************************)
RECURSIVE lstrip(_)
lstrip(s) == IF s # <<>> /\ Head(s) \in Whitespace THEN lstrip(Tail(s)) ELSE s

RECURSIVE rstrip(_)
rstrip(s) ==
    IF s # <<>> /\ s[Len(s)] \in Whitespace THEN rstrip(SubSeq(s, 1, Len(s) - 1)) ELSE s

\* variant: only the left end is stripped
stripLeft(s) == lstrip(s)

strip(s) == rstrip(lstrip(s))

replace(s, old, new) == [k \in 1..Len(s) |-> IF s[k] = old THEN new ELSE s[k]]

\* line 47: the name of the query's directory
DirName(q) == replace(q, SPACE, "-")

(***************************************************************************)
(* Inputs.                                                                 *)
(***************************************************************************)
SEARCH_URL == <<SCHEME, "www.google.com/search">>

U_PLAIN   == <<SCHEME, LETTER, DOT, EXT>>                   \* https://x.jpg
U_PATH    == <<SCHEME, LETTER, SLASH, LETTER, DOT, EXT>>    \* https://x/x.jpg
U_OTHER   == <<SCHEME, LETTER, SLASH, EXT, DOT, EXT>>       \* https://x/jpg.jpg
U_GSTATIC == <<SCHEME, GSTATIC, SLASH, LETTER, DOT, EXT>>   \* https://gstatic/x.jpg
U_GPATH   == <<SCHEME, LETTER, SLASH, GSTATIC, DOT, EXT>>   \* https://x/gstatic.jpg
Words     == {U_PLAIN, U_PATH, U_OTHER, U_GSTATIC, U_GPATH}

\* a search page: URLs, each followed by a blank
Page(ws) == Flatten([k \in 1..Len(ws) |-> ws[k] \o <<SPACE>>])

Responses == {Page(ws) : ws \in SeqsUpTo(Words, MaxCands)}
Texts     == SeqsUpTo(Alphabet, MaxText)
Queries   == SeqsUpTo({QLETTER, SPACE, TAB}, MaxQuery)
Pads      == SeqsUpTo(Whitespace, MaxPad)

\* --num as argparse sees it: no occurrence, or one integer
NumArgs == {<<>>} \cup {<<n>> : n \in (-1..MaxNum) \cup {DefaultNum}}

ReturnFormats == {"raw", "html", "json"}

NoCall  == [request |-> [url |-> <<>>, headers |-> FALSE, q |-> <<>>], return_format |-> NONE]
NoArgs  == [parsed |-> FALSE, query |-> <<>>, num |-> [kind |-> NONE, val |-> 0]]
NoImage == [type |-> NONE, query |-> <<>>, scraper |-> NONE, image_url |-> <<>>,
            image_filename |-> <<>>, image_format |-> <<>>]

(***************************************************************************)
(* The state before the interpreter reaches line 140.                      *)
(***************************************************************************)
InitWith(queries, nums, start) ==
    /\ argv \in [query : queries, num : nums]
    /\ args = NoArgs
    /\ pc = start
    /\ error = NONE
    /\ query = <<>>
    /\ image_dir = <<>>
    /\ dirs = {}
    /\ num_results = 0
    /\ dpc = "idle"
    /\ call = NoCall
    /\ result = <<>>
    /\ derror = NONE
    /\ sessions_open = 0
    /\ inflight = 0
    /\ get_log = <<>>
    /\ call_gets = 0
    /\ call_sessions = 0
    /\ body_reads = 0
    /\ image_urls = <<>>
    /\ candidates = <<>>
    /\ rem_pos = <<>>
    /\ sel_pos = <<>>
    /\ selected = <<>>
    /\ loop_range = 0
    /\ iter = 0
    /\ progress = 0
    /\ image_data = NoImage
    /\ file_open = FALSE
    /\ files = {}
    /\ writes = <<>>
    /\ calls_done = <<>>

(***************************************************************************)
(* __main__, lines 143-147.                                                *)
(***************************************************************************)
\* parse_args(): --num has nargs=1 and default=100, so the namespace holds a
\* one-element list when the flag is given and the bare integer when it is not
ParseNum(num) ==
    IF num = <<>> THEN [kind |-> "int", val |-> DefaultNum]
    ELSE [kind |-> "list", val |-> num[1]]

ParseArgs ==
    /\ pc = "main"
    /\ args' = [parsed |-> TRUE, query |-> argv.query, num |-> ParseNum(argv.num)]
    /\ pc' = "construct"
    /\ UNCHANGED <<argv, query, image_dir, dirs, num_results, error, dispVars,
                   pipeVars, calls_done>>

\* args.num.pop(): only a list has pop
CanPop(v) == v.kind = "list"

\* line 147: the arguments are evaluated first, then __init__ (lines 46-51) runs
Construct ==
    /\ pc = "construct"
    /\ IF CanPop(args.num)
       THEN /\ query' = strip(args.query)
            /\ image_dir' = DirName(query')
            /\ dirs' = dirs \cup {image_dir'}
            /\ num_results' = args.num.val
            /\ pc' = "fetch"
            /\ error' = NONE
       ELSE /\ pc' = "crashed"
            /\ error' = "AttributeError"
            /\ UNCHANGED <<query, image_dir, dirs, num_results>>
    /\ UNCHANGED <<argv, args, dispVars, pipeVars, calls_done>>

(***************************************************************************)
(* _fetch_request, lines 70-78.                                            *)
(***************************************************************************)
\* the caller's side of "await self._fetch_request(request_data, return_format)"
Invoke(request, return_format) ==
    /\ dpc = "idle"
    /\ call' = [request |-> request, return_format |-> return_format]
    /\ dpc' = "session"
    /\ result' = <<>>
    /\ derror' = NONE
    /\ call_gets' = 0
    /\ call_sessions' = 0
    /\ UNCHANGED <<sessions_open, inflight, get_log, body_reads>>

\* line 71: async with ClientSession(...)
OpenSession ==
    /\ dpc = "session"
    /\ sessions_open' = sessions_open + 1
    /\ call_sessions' = call_sessions + 1
    /\ dpc' = "get"
    /\ UNCHANGED <<call, result, derror, inflight, get_log, call_gets, body_reads>>
    /\ UNCHANGED <<cliVars, pc, error, pipeVars, calls_done>>

\* line 72: async with session.get(**request_data)
IssueGet ==
    /\ dpc = "get"
    /\ get_log' = Append(get_log, call.request)
    /\ inflight' = inflight + 1
    /\ call_gets' = call_gets + 1
    /\ dpc' = "response"
    /\ UNCHANGED <<call, result, derror, sessions_open, call_sessions, body_reads>>
    /\ UNCHANGED <<cliVars, pc, error, pipeVars, calls_done>>

\* variant: the contexts are never exited
KeepContexts ==
    /\ inflight' = inflight
    /\ sessions_open' = sessions_open

\* the exits of the two "async with" blocks of lines 71-72
ExitContexts ==
    /\ inflight' = inflight - 1
    /\ sessions_open' = sessions_open - 1

\* variant: only "raw" is accepted
FormatKnownRawOnly(return_format) == return_format = "raw"

\* lines 73-77: the return formats that have a branch
FormatKnown(return_format) == return_format = "raw" \/ return_format = "html"

\* the transport fails (connection error, timeout): both contexts exit, the
\* exception leaves _fetch_request
NetFail ==
    /\ dpc = "response"
    /\ derror' = "ClientError"
    /\ dpc' = "raised"
    /\ ExitContexts
    /\ UNCHANGED <<call, result, get_log, call_gets, call_sessions, body_reads>>
    /\ UNCHANGED <<cliVars, pc, error, pipeVars, calls_done>>

\* what the server holds at a URL: a page of text at the search URL, the image's
\* bytes (identified by the URL) anywhere else
ServerBodies(url, texts) == IF url = SEARCH_URL THEN texts ELSE {url}

\* lines 73-78: the response has arrived; the return format is looked at now
Respond(texts) ==
    /\ dpc = "response"
    /\ \E body \in ServerBodies(call.request.url, texts) :
          IF FormatKnown(call.return_format)
          THEN /\ result' = body
               /\ body_reads' = body_reads + 1
               /\ dpc' = "returned"
               /\ derror' = NONE
          ELSE /\ derror' = "TypeError"
               /\ dpc' = "raised"
               /\ UNCHANGED <<result, body_reads>>
    /\ ExitContexts
    /\ UNCHANGED <<call, get_log, call_gets, call_sessions>>
    /\ UNCHANGED <<cliVars, pc, error, pipeVars, calls_done>>

(***************************************************************************)
(* _get_request_params, lines 65-68.                                       *)
(***************************************************************************)
_get_request_params == [url |-> SEARCH_URL, headers |-> TRUE, q |-> query]

(***************************************************************************)
(* fetch, lines 106-117, with _fetch_image_urls and _fetch_image.          *)
(***************************************************************************)
\* line 108 and line 81
FetchImageUrlsCall ==
    /\ pc = "fetch"
    /\ Invoke(_get_request_params, "html")
    /\ pc' = "await_search"
    /\ UNCHANGED <<cliVars, error, pipeVars, calls_done>>

\* variant: the requested count is ignored
LoopRangeAll(n, urls) == Len(urls)

\* lines 109-111
LoopRange(n, urls) == IF n <= Len(urls) THEN n ELSE Len(urls)

\* lines 82-84 and 109-112
ExtractUrls ==
    /\ pc = "await_search"
    /\ dpc = "returned"
    /\ image_urls' = ExtractImageUrls(result)
    /\ candidates' = image_urls'
    /\ rem_pos' = [k \in 1..Len(image_urls') |-> k]
    /\ loop_range' = LoopRange(num_results, image_urls')
    /\ progress' = 0
    /\ iter' = 0
    /\ pc' = "loop"
    /\ dpc' = "idle"
    /\ UNCHANGED <<call, result, derror, sessions_open, inflight, get_log,
                   call_gets, call_sessions, body_reads>>
    /\ UNCHANGED <<sel_pos, selected, image_data, file_open, files, writes>>
    /\ UNCHANGED <<cliVars, error, calls_done>>

\* list.index: the first position holding v
IndexOf(s, v) == CHOOSE k \in 1..Len(s) : s[k] = v /\ \A m \in 1..(k - 1) : s[m] # v

\* variants of list.pop: nothing is removed; the last element is removed
RemoveAtNothing(s, k) == s
RemoveAtLast(s, k) == SubSeq(s, 1, Len(s) - 1)

\* list.pop(k), the list that is left
RemoveAt(s, k) == SubSeq(s, 1, k - 1) \o SubSeq(s, k + 1, Len(s))

\* the position line 114 pops when random.choice draws position r
PopIndex(urls, r) == IndexOf(urls, urls[r])

\* lines 113-115
SelectNext ==
    /\ pc = "loop"
    /\ iter < loop_range
    /\ \E r \in 1..Len(image_urls) :
          LET k == PopIndex(image_urls, r)
          IN  /\ selected' = Append(selected, image_urls[k])
              /\ sel_pos' = Append(sel_pos, rem_pos[k])
              /\ image_urls' = RemoveAt(image_urls, k)
              /\ rem_pos' = RemoveAt(rem_pos, k)
              /\ image_data' = _get_image_data(image_urls[k])
    /\ iter' = iter + 1
    /\ pc' = "open"
    /\ UNCHANGED <<candidates, loop_range, progress, file_open, files, writes>>
    /\ UNCHANGED <<cliVars, error, dispVars, calls_done>>

\* the directory after a file is opened "wb" (empty) or written
WithFile(fs, name, content) ==
    {f \in fs : f.name # name} \cup {[name |-> name, content |-> content]}

\* variant: the file is not created or truncated when it is opened
OpenFileNoTruncate ==
    /\ pc = "open"
    /\ file_open' = TRUE
    /\ Invoke([url |-> image_data.image_url, headers |-> FALSE, q |-> <<>>], "raw")
    /\ pc' = "await_image"
    /\ UNCHANGED <<image_urls, candidates, rem_pos, sel_pos, selected, loop_range,
                   iter, progress, image_data, writes, files>>
    /\ UNCHANGED <<cliVars, error, calls_done>>

\* line 88: aiofiles.open(..., "wb") is entered first, then line 89 evaluates
\* its argument, the call of _fetch_request
OpenFile ==
    /\ pc = "open"
    /\ files' = WithFile(files, image_data.image_filename, <<>>)
    /\ file_open' = TRUE
    /\ Invoke([url |-> image_data.image_url, headers |-> FALSE, q |-> <<>>], "raw")
    /\ pc' = "await_image"
    /\ UNCHANGED <<image_urls, candidates, rem_pos, sel_pos, selected, loop_range,
                   iter, progress, image_data, writes>>
    /\ UNCHANGED <<cliVars, error, calls_done>>

\* line 88 raises (permissions, missing directory)
OpenFileFails ==
    /\ pc = "open"
    /\ error' = "OSError"
    /\ pc' = "crashed"
    /\ UNCHANGED <<cliVars, dispVars, pipeVars, calls_done>>

\* line 89: image_file.write(payload), then the file's context exits
WriteImage ==
    /\ pc = "await_image"
    /\ dpc = "returned"
    /\ files' = WithFile(files, image_data.image_filename, result)
    /\ writes' = Append(writes, image_data.image_filename)
    /\ file_open' = FALSE
    /\ pc' = "update"
    /\ dpc' = "idle"
    /\ UNCHANGED <<call, result, derror, sessions_open, inflight, get_log,
                   call_gets, call_sessions, body_reads>>
    /\ UNCHANGED <<image_urls, candidates, rem_pos, sel_pos, selected, loop_range,
                   iter, progress, image_data>>
    /\ UNCHANGED <<cliVars, error, calls_done>>

\* line 89 raises in write (disk full): the file's context exits
WriteFails ==
    /\ pc = "await_image"
    /\ dpc = "returned"
    /\ error' = "OSError"
    /\ file_open' = FALSE
    /\ pc' = "crashed"
    /\ dpc' = "idle"
    /\ UNCHANGED <<call, result, derror, sessions_open, inflight, get_log,
                   call_gets, call_sessions, body_reads>>
    /\ UNCHANGED <<image_urls, candidates, rem_pos, sel_pos, selected, loop_range,
                   iter, progress, image_data, files, writes>>
    /\ UNCHANGED <<cliVars, calls_done>>

\* line 117
UpdateProgress ==
    /\ pc = "update"
    /\ progress' = progress + 1
    /\ pc' = "loop"
    /\ UNCHANGED <<image_urls, candidates, rem_pos, sel_pos, selected, loop_range,
                   iter, image_data, file_open, files, writes>>
    /\ UNCHANGED <<cliVars, error, dispVars, calls_done>>

\* range(loop_range) is exhausted: fetch() returns, lines 149-150
Finish ==
    /\ pc = "loop"
    /\ ~(iter < loop_range)
    /\ pc' = "done"
    /\ UNCHANGED <<cliVars, error, dispVars, pipeVars, calls_done>>

\* variant: a failed image is skipped and the loop goes on
SkipFailedItem ==
    /\ pc \in {"await_search", "await_image"}
    /\ dpc = "raised"
    /\ error' = IF pc = "await_search" THEN derror ELSE error
    /\ file_open' = FALSE
    /\ pc' = IF pc = "await_search" THEN "crashed" ELSE "update"
    /\ dpc' = "idle"
    /\ UNCHANGED <<call, result, derror, sessions_open, inflight, get_log,
                   call_gets, call_sessions, body_reads>>
    /\ UNCHANGED <<image_urls, candidates, rem_pos, sel_pos, selected, loop_range,
                   iter, progress, image_data, files, writes>>
    /\ UNCHANGED <<cliVars, calls_done>>

\* _fetch_request raised: nothing on the way up catches it (lines 81, 89, 108,
\* 116, 149); an open file's context exits
PropagateFailure ==
    /\ pc \in {"await_search", "await_image"}
    /\ dpc = "raised"
    /\ error' = derror
    /\ file_open' = FALSE
    /\ pc' = "crashed"
    /\ dpc' = "idle"
    /\ UNCHANGED <<call, result, derror, sessions_open, inflight, get_log,
                   call_gets, call_sessions, body_reads>>
    /\ UNCHANGED <<image_urls, candidates, rem_pos, sel_pos, selected, loop_range,
                   iter, progress, image_data, files, writes>>
    /\ UNCHANGED <<cliVars, calls_done>>

(***************************************************************************)
(* A caller of _fetch_request that passes any return format and records    *)
(* how each call ended.                                                    *)
(***************************************************************************)
HarnessCall ==
    /\ pc = "harness"
    /\ Len(calls_done) < MaxCalls
    /\ \E fmt \in ReturnFormats, url \in {SEARCH_URL, U_PLAIN} :
          Invoke([url |-> url, headers |-> FALSE, q |-> <<>>], fmt)
    /\ UNCHANGED <<cliVars, pc, error, pipeVars, calls_done>>

HarnessReturn ==
    /\ pc = "harness"
    /\ dpc \in {"returned", "raised"}
    /\ calls_done' = Append(calls_done,
                            [return_format |-> call.return_format, outcome |-> dpc,
                             derror |-> derror, gets |-> call_gets,
                             sessions |-> call_sessions])
    /\ dpc' = "idle"
    /\ UNCHANGED <<call, result, derror, sessions_open, inflight, get_log,
                   call_gets, call_sessions, body_reads>>
    /\ UNCHANGED <<cliVars, pc, error, pipeVars>>

(***************************************************************************)
(* Specifications.                                                         *)
(***************************************************************************)
\* the whole program run from the command line
Init == InitWith({<<QLETTER, SPACE, QLETTER>>}, NumArgs, "main")

Next ==
    \/ ParseArgs
    \/ Construct
    \/ FetchImageUrlsCall
    \/ OpenSession
    \/ IssueGet
    \/ NetFail
    \/ Respond(Responses)
    \/ ExtractUrls
    \/ SelectNext
    \/ OpenFile
    \/ OpenFileFails
    \/ WriteImage
    \/ WriteFails
    \/ UpdateProgress
    \/ Finish
    \/ PropagateFailure

Spec == Init /\ [][Next]_vars

\* the command line and the constructor, over all queries
InitCli == InitWith(Queries, {<<>>, <<1>>, <<DefaultNum>>}, "main")

NextCli == ParseArgs \/ Construct

SpecCli == InitCli /\ [][NextCli]_vars

\* the search request and the extractor, over all response texts
InitExtract == InitWith({<<QLETTER>>}, {<<1>>}, "main")

NextExtract ==
    \/ ParseArgs
    \/ Construct
    \/ FetchImageUrlsCall
    \/ OpenSession
    \/ IssueGet
    \/ NetFail
    \/ Respond(Texts \cup Responses)
    \/ ExtractUrls
    \/ PropagateFailure

SpecExtract == InitExtract /\ [][NextExtract]_vars

\* the dispatcher alone, called with every return format
InitDispatch == InitWith({<<QLETTER>>}, {<<1>>}, "harness")

NextDispatch ==
    \/ HarnessCall
    \/ OpenSession
    \/ IssueGet
    \/ NetFail
    \/ Respond({<<>>, U_PLAIN})
    \/ HarnessReturn

SpecDispatch == InitDispatch /\ [][NextDispatch]_vars

(***************************************************************************)
(* Vocabulary of the properties.                                           *)
(***************************************************************************)
Min(a, b) == IF a <= b THEN a ELSE b
Max(a, b) == IF a >= b THEN a ELSE b

Range(s) == {s[k] : k \in 1..Len(s)}
Count(s, v) == Cardinality({k \in 1..Len(s) : s[k] = v})
NoRepeats(s) == \A a, b \in 1..Len(s) : a # b => s[a] # s[b]
SameMultiset(s, t) == \A v \in Range(s) \cup Range(t) : Count(s, v) = Count(t, v)

IsImageGet(request) == request.url # SEARCH_URL
ImageGets == SelectSeq(get_log, IsImageGet)
ImageGetUrls == [k \in 1..Len(ImageGets) |-> ImageGets[k].url]
SearchGets == Cardinality({k \in 1..Len(get_log) : ~IsImageGet(get_log[k])})

\* the requested count and the number of candidates of the run
RequestedN == num_results
CandidateL == Len(candidates)

(***************************************************************************)
(* C1: for a candidate list of length L (duplicates allowed) and a         *)
(* requested count N >= 0, the selection loop processes exactly min(N, L)  *)
(* elements, each taken from a different position of the candidate list;   *)
(* the selected and the remaining candidates together are always the       *)
(* original multiset; when N >= L the selection is a permutation of the    *)
(* whole candidate list.                                                   *)
(***************************************************************************)
C1_SelectionBound ==
    /\ NoRepeats(sel_pos)
    /\ \A k \in 1..Len(selected) :
          sel_pos[k] \in 1..CandidateL /\ selected[k] = candidates[sel_pos[k]]
    /\ SameMultiset(selected \o image_urls, candidates)
    /\ (pc = "done" /\ RequestedN >= 0) => Len(selected) = Min(RequestedN, CandidateL)
    /\ (pc = "done" /\ RequestedN >= CandidateL) =>
          /\ Len(selected) = CandidateL
          /\ SameMultiset(selected, candidates)

C1_Witness ==
    /\ pc = "done"
    /\ RequestedN >= CandidateL
    /\ CandidateL = 3
    /\ ~NoRepeats(candidates)
    /\ selected # candidates

(***************************************************************************)
(* C2: the elements selected for download are all distinct: no URL string  *)
(* is selected, and so downloaded, twice in one run.                       *)
(***************************************************************************)
C2_SelectedDistinct == NoRepeats(selected) /\ NoRepeats(ImageGetUrls)

(***************************************************************************)
(* C2 as amended: the selected elements come from pairwise different       *)
(* positions of the candidate list, a URL string is selected at most as    *)
(* often as it occurs among the candidates, and the selected strings are   *)
(* all distinct whenever the candidate list holds no string twice.         *)
(***************************************************************************)
C2_SelectedDistinctPositions ==
    /\ NoRepeats(sel_pos)
    /\ \A v \in Range(selected) : Count(selected, v) <= Count(candidates, v)
    /\ \A v \in Range(ImageGetUrls) : Count(ImageGetUrls, v) <= Count(candidates, v)
    /\ NoRepeats(candidates) => NoRepeats(selected)

C2_Witness ==
    /\ pc = "done"
    /\ Len(selected) = 2
    /\ selected[1] = selected[2]
    /\ Len(ImageGets) = 2

(***************************************************************************)
(* C3: in a run in which no fetch or write fails, with L candidates and a  *)
(* requested count N, the pipeline performs exactly min(N, L) image        *)
(* fetches and writes exactly min(N, L) files into the query's directory,  *)
(* each named by its source URL's basename.                                *)
(***************************************************************************)
FileNames == {f.name : f \in files}

C3_FetchesAndFiles ==
    (pc = "done" /\ RequestedN >= 0) =>
        /\ Len(ImageGets) = Min(RequestedN, CandidateL)
        /\ Cardinality(files) = Min(RequestedN, CandidateL)
        /\ FileNames = {basename(u) : u \in Range(selected)}

(***************************************************************************)
(* C3 as amended: such a run performs exactly max(0, min(N, L)) image      *)
(* fetches and as many write operations, one per selected URL and to the   *)
(* file named by that URL's basename; the directory then holds one file    *)
(* per distinct basename among the selected URLs, with the bytes of the    *)
(* last selected URL of that basename, which is min(N, L) files when N >=  *)
(* 0 and the basenames are pairwise distinct.                              *)
(***************************************************************************)
SelectedNames == [k \in 1..Len(selected) |-> basename(selected[k])]

LastWithName(name) ==
    selected[CHOOSE k \in 1..Len(selected) :
                /\ SelectedNames[k] = name
                /\ \A m \in (k + 1)..Len(selected) : SelectedNames[m] # name]

C3_FetchesAndWrites ==
    pc = "done" =>
        /\ error = NONE
        /\ Len(ImageGets) = Max(0, Min(RequestedN, CandidateL))
        /\ Len(writes) = Max(0, Min(RequestedN, CandidateL))
        /\ ImageGetUrls = selected
        /\ writes = SelectedNames
        /\ FileNames = Range(SelectedNames)
        /\ Cardinality(files) = Cardinality(Range(SelectedNames))
        /\ \A f \in files : f.content = LastWithName(f.name)
        /\ (RequestedN >= 0 /\ NoRepeats(SelectedNames)) =>
              Cardinality(files) = Min(RequestedN, CandidateL)
        /\ image_dir \in dirs

C3_Witness ==
    /\ pc = "done"
    /\ CandidateL = 3
    /\ RequestedN > CandidateL
    /\ Len(ImageGets) = 3
    /\ Cardinality(files) = 2

(***************************************************************************)
(* C4: an error during the search request or during one image's fetch or   *)
(* write aborts the whole run: after the failure no GET is issued and no   *)
(* file is written, the failed request is not retried, the progress        *)
(* counter is not advanced for the failed item, and the run ends in the    *)
(* failure state, never in the success state.                              *)
(***************************************************************************)
Failed == pc = "crashed" \/ dpc = "raised"

C4_AbortOnFailure ==
    /\ [](/\ pc = "crashed" => error # NONE
          /\ pc = "done" => error = NONE
          /\ progress <= Len(writes)
          /\ (Failed /\ iter > 0) => progress = iter - 1)
    /\ [][Failed =>
            /\ pc' = "crashed"
            /\ get_log' = get_log
            /\ files' = files
            /\ writes' = writes
            /\ progress' = progress
            /\ sessions_open' = 0]_vars

C4_Witness ==
    /\ pc = "crashed"
    /\ error = "ClientError"
    /\ iter = 2
    /\ loop_range = 3
    /\ progress = 1
    /\ Len(ImageGets) = 2

(***************************************************************************)
(* C5: at most one HTTP request and at most one client session are in      *)
(* flight in every state of a run of fetch(): the search request is over   *)
(* before the first image fetch starts, each image's fetch and write are   *)
(* over before the next image's fetch starts, the pool's cap of 5 is never *)
(* approached, and the downloads happen in selection order.                *)
(***************************************************************************)
C5_OneAtATime ==
    /\ inflight <= 1
    /\ sessions_open <= 1
    /\ inflight < PoolLimit
    /\ get_log # <<>> => ~IsImageGet(get_log[1])
    /\ SearchGets <= 1
    /\ ImageGetUrls = SubSeq(selected, 1, Len(ImageGets))
    /\ Len(ImageGets) \in {iter - 1, iter}
    /\ (inflight = 1 /\ Len(ImageGets) > 0) => Len(writes) = Len(ImageGets) - 1
    /\ Len(writes) <= Len(ImageGets)
    /\ writes = SubSeq(SelectedNames, 1, Len(writes))

C5_Witness ==
    /\ inflight = 1
    /\ sessions_open = 1
    /\ Len(ImageGets) = 2
    /\ Len(writes) = 1

(***************************************************************************)
(* C6: --num is optional with default 100: invoked with --query only, the  *)
(* scraper is constructed with num_results = 100 and the pipeline runs as  *)
(* if --num 100 had been given, with no error during argument handling.    *)
(***************************************************************************)
C6_DefaultNum ==
    (argv.num = <<>> /\ pc \notin {"main", "construct"}) =>
        /\ pc # "crashed" \/ get_log # <<>>
        /\ num_results = DefaultNum

(***************************************************************************)
(* C7: for any response text the extractor returns exactly the substrings  *)
(* matching the https image-URL pattern, in order of appearance and with   *)
(* duplicates kept, excluding exactly the URLs whose host contains         *)
(* "gstatic".                                                              *)
(***************************************************************************)
\* the ends of the substrings of text that start at p and match the pattern
MatchEnds(text, p) ==
    {e \in (p + 3)..Len(text) :
        /\ text[p] = SCHEME
        /\ \A k \in (p + 1)..e : text[k] \in ClassChars
        /\ text[e - 1] = DOT
        /\ text[e] = EXT}

MatchStarts(text) == {p \in 1..Len(text) : MatchEnds(text, p) # {}}

LongestEnd(text, p) == CHOOSE e \in MatchEnds(text, p) : \A d \in MatchEnds(text, p) : d <= e

Ascending(S) ==
    CHOOSE f \in [1..Cardinality(S) -> S] : \A a, b \in 1..Cardinality(S) : a < b => f[a] < f[b]

\* the matches of the pattern in text, in order of appearance
PatternUrls(text) ==
    LET starts == Ascending(MatchStarts(text))
    IN  [k \in 1..Len(starts) |-> SubSeq(text, starts[k], LongestEnd(text, starts[k]))]

\* the part of a URL between the scheme and the first slash after it
Host(url) ==
    LET slashes == {k \in 2..Len(url) : url[k] = SLASH}
    IN  IF slashes = {} THEN SubSeq(url, 2, Len(url))
        ELSE SubSeq(url, 2, (CHOOSE k \in slashes : \A m \in slashes : k <= m) - 1)

HostIsNotGstatic(url) == ~Contains(Host(url), GSTATIC)
HasNoGstatic(url) == ~Contains(url, GSTATIC)

C7_ExcludesGstaticHosts ==
    pc = "loop" => candidates = SelectSeq(PatternUrls(result), HostIsNotGstatic)

(***************************************************************************)
(* C7 as amended: the extractor returns exactly the substrings matching    *)
(* the pattern, in order of appearance and with duplicates kept, excluding *)
(* exactly the URLs that contain "gstatic" anywhere, in the host or in the *)
(* path.                                                                   *)
(***************************************************************************)
C7_ExcludesGstaticAnywhere ==
    pc = "loop" => candidates = SelectSeq(PatternUrls(result), HasNoGstatic)

C7_Witness ==
    /\ pc = "loop"
    /\ Len(candidates) = 2
    /\ candidates[1] = candidates[2]
    /\ \E k \in 1..Len(PatternUrls(result)) :
          /\ HostIsNotGstatic(PatternUrls(result)[k])
          /\ ~HasNoGstatic(PatternUrls(result)[k])

(***************************************************************************)
(* C8: the directory name does not depend on leading or trailing           *)
(* whitespace of the query, added or removed, and whitespace is replaced   *)
(* by hyphens: the name contains no whitespace character.                  *)
(***************************************************************************)
\* the query with leading and trailing whitespace characters removed, any number of them
Trimmed(q) ==
    {SubSeq(q, a, b) : <<a, b>> \in
        {w \in (1..(Len(q) + 1)) \X (0..Len(q)) :
            /\ w[1] <= w[2] + 1
            /\ \A k \in 1..(w[1] - 1) : q[k] \in Whitespace
            /\ \A k \in (w[2] + 1)..Len(q) : q[k] \in Whitespace}}

Padded(q) == {l \o q \o r : l, r \in Pads}

PaddingIgnored ==
    \A q \in Padded(argv.query) \cup Trimmed(argv.query) : DirName(strip(q)) = image_dir

C8_NoWhitespaceInDirName ==
    pc = "fetch" =>
        /\ PaddingIgnored
        /\ \A k \in 1..Len(image_dir) : image_dir[k] \notin Whitespace

(***************************************************************************)
(* C8 as amended: the directory name does not depend on leading or         *)
(* trailing whitespace of the query, added or removed, and every space is  *)
(* replaced by a hyphen: the name contains no space, and keeps every other *)
(* character of the stripped query, a tab inside it included.              *)
(***************************************************************************)
C8_NoSpaceInDirName ==
    pc = "fetch" =>
        /\ PaddingIgnored
        /\ Len(image_dir) = Len(query)
        /\ \A k \in 1..Len(image_dir) :
              /\ image_dir[k] # SPACE
              /\ image_dir[k] = IF query[k] = SPACE THEN "-" ELSE query[k]
        /\ query # <<>> => query[1] \notin Whitespace /\ query[Len(query)] \notin Whitespace
        /\ query \in Trimmed(argv.query)

C8_Witness ==
    /\ pc = "fetch"
    /\ argv.query = <<SPACE, QLETTER, SPACE, QLETTER>>
    /\ image_dir = <<QLETTER, "-", QLETTER>>

(***************************************************************************)
(* C9: within a download iteration the GET for the image's bytes is issued *)
(* and its payload obtained before the target file is opened for writing,  *)
(* and the progress counter advances only after the write: whenever the    *)
(* target file is open, the bytes to write are already there.              *)
(***************************************************************************)
PayloadObtained == dpc = "returned" /\ result = image_data.image_url

C9_FetchBeforeOpen ==
    /\ file_open => PayloadObtained
    /\ progress <= Len(writes)

(***************************************************************************)
(* C9 as amended: within a download iteration the target file is opened    *)
(* for writing, and so created empty or truncated, before the GET for the  *)
(* image's bytes is issued, and it stays open while the request runs; the  *)
(* payload is obtained before it is written, and the progress counter      *)
(* advances only after the write.                                          *)
(***************************************************************************)
TargetFile(content) == [name |-> image_data.image_filename, content |-> content]

C9_OpenBeforeFetch ==
    /\ [](/\ (pc = "await_image" /\ dpc \in {"session", "get", "response", "returned"}) =>
                file_open /\ TargetFile(<<>>) \in files
          /\ (Len(ImageGets) = iter /\ iter > 0) =>
                \E f \in files : f.name = image_data.image_filename
          /\ file_open => pc = "await_image"
          /\ progress <= Len(writes))
    /\ [][/\ Len(get_log') > Len(get_log) /\ pc = "await_image" =>
                file_open /\ TargetFile(<<>>) \in files
          /\ writes' # writes =>
                PayloadObtained /\ TargetFile(result) \in files'
          /\ progress' # progress =>
                progress' = Len(writes) /\ writes' = writes]_vars

C9_Witness ==
    /\ file_open
    /\ dpc = "response"
    /\ TargetFile(<<>>) \in files
    /\ progress = 1

(***************************************************************************)
(* C10: the dispatcher performs exactly one GET per call when the return   *)
(* kind is "raw" or "html", and a call with any other return kind fails    *)
(* immediately: the error is raised without a session being opened or a    *)
(* GET being issued for that call.                                         *)
(***************************************************************************)
ValidFormat(fmt) == fmt \in {"raw", "html"}

C10_FailFast ==
    /\ dpc = "returned" => call_gets = 1
    /\ ~ValidFormat(call.return_format) => call_gets = 0 /\ call_sessions = 0

(***************************************************************************)
(* C10 as amended: the dispatcher opens exactly one session and issues     *)
(* exactly one GET per call, whatever the return kind; a call with a kind  *)
(* other than "raw" or "html" raises TypeError only after the session is   *)
(* opened, the GET issued and the response arrived, without reading the    *)
(* body, and a call with "raw" or "html" never raises TypeError.           *)
(***************************************************************************)
C10_FailAfterGet ==
    /\ dpc \in {"returned", "raised"} => call_gets = 1 /\ call_sessions = 1
    /\ dpc = "session" => call_gets = 0 /\ call_sessions = 0
    /\ dpc = "returned" => ValidFormat(call.return_format)
    /\ (dpc = "raised" /\ derror = "TypeError") =>
          ~ValidFormat(call.return_format) /\ result = <<>>
    /\ (dpc = "raised" /\ ~ValidFormat(call.return_format)) =>
          derror \in {"TypeError", "ClientError"}
    /\ Len(get_log) = Len(calls_done) + (IF dpc = "idle" THEN 0 ELSE call_gets)
    /\ body_reads = Cardinality({k \in 1..Len(calls_done) : calls_done[k].outcome = "returned"})
                    + (IF dpc = "returned" THEN 1 ELSE 0)
    /\ \A k \in 1..Len(calls_done) : calls_done[k].gets = 1 /\ calls_done[k].sessions = 1

C10_Witness ==
    /\ dpc = "raised"
    /\ derror = "TypeError"
    /\ call.return_format = "json"
    /\ call_gets = 1
    /\ Len(calls_done) = 1

====
